---- MODULE Spec2Model ----
(***************************************************************************)
(* A model of pythonequipmentdrivers: the EnvironmentSetup connection      *)
(* bootstrapper (__core.py), the Keysight_33500B function generator driver *)
(* (functiongenerator/Keysight_33500B.py) and the file utilities           *)
(* (utility/data_management.py).                                           *)
(*                                                                         *)
(* Several specifications share the module's variables:                    *)
(*   Spec         EnvironmentSetup.__init__ (read_configuration,           *)
(*                check_mask, connect_to_devices, initiaize_device);       *)
(*   SpecShadow   the same, with a device named like an attribute of       *)
(*                EnvironmentSetup;                                        *)
(*   SpecEq       Scpi_Instrument.__eq__ and __ne__;                       *)
(*   SpecSession  Scpi_Instrument.__init__ and __del__;                    *)
(*   SpecIdentify identify_devices;                                        *)
(*   SpecFgen, SpecFreq, SpecWave, SpecEdge                                *)
(*                calls of Keysight_33500B methods against a mock          *)
(*                instrument;                                              *)
(*   SpecDump, SpecLog, SpecLogData                                        *)
(*                dump_array_data, create_test_log and log_data on a       *)
(*                file system.                                             *)
(* Each specification leaves the other components' variables unchanged.    *)
(***************************************************************************)
EXTENDS Integers, Sequences, FiniteSets, TLC

VARIABLES
    \* ---- EnvironmentSetup (__core.py) ----
    pc,             \* position inside EnvironmentSetup.__init__
    equipment_setup,\* the constructor's first argument
    configuration,  \* self.configuration: the keys, in insertion order
    object_mask,    \* self.object_mask
    init,           \* the constructor's init argument
    verbose,        \* kwargs.get('verbose', True)
    idx,            \* position of the for loop of connect_to_devices
    info,           \* the entry the loop is at: has_init, init sequence
    attrs,          \* vars(self): the names bound to a driver instance
    error,          \* the exception that left the constructor, if any
    opens,          \* number of driver constructor calls (open_resource)
    resolved,       \* names whose driver was looked up, in order
    reports,        \* what connect_to_devices printed for the current entry
    outcome,        \* history: how each processed entry ended
    step,           \* position of the for loop of initiaize_device
    calls,          \* init steps invoked for the current entry, in order
    step_reports,   \* init steps whose TypeError was printed
    \* ---- Keysight_33500B (functiongenerator/Keysight_33500B.py) ----
    fg_store,       \* mock instrument: the last argument written per header
    fg_nwrites,     \* number of self.instrument.write calls so far
    fg_last,        \* the last driver call: arguments, writes, result
    fg_calls,       \* number of driver calls so far
    fg_expect,      \* history: the frequency last passed per source
    \* ---- utility/data_management.py ----
    da_pc,          \* dump_array_data: "call" before, "returned" after
    da_args,        \* the arguments of the dump_array_data call
    files,          \* text files: path and lines
    clock,          \* the second time.strftime reads
    dirs,           \* the directories that exist
    json_files,     \* files written by json.dump: path and mapping
    tl_last,        \* the last create_test_log call
    tl_calls,       \* number of create_test_log calls so far
    ld_log,         \* history: the log_data calls so far, in order
    \* ---- Scpi_Instrument (__core.py) ----
    eq_objs,        \* the objects that are compared
    eq_last,        \* the last comparison: operands and result
    \* ---- identify_devices (__core.py) ----
    id_pc,          \* "loop", "returned" or "raised"
    id_resources,   \* rm.list_resources() and how each device behaves
    id_verbose,     \* the verbose argument
    id_idx,         \* position of the for loop
    id_device,      \* the local name device: 0 when unbound
    scpi_devices,   \* the list that is returned
    id_error,       \* the exception that left identify_devices, if any
    id_opened,      \* history: the sessions that were opened
    id_closed,      \* history: the sessions that were disposed
    id_printed,     \* number of print calls
    \* ---- Scpi_Instrument (__core.py): construction and disposal ----
    insts           \* the driver instances and their transport sessions

envVars == <<pc, equipment_setup, configuration, object_mask, init, verbose,
             idx, info, attrs, error, opens, resolved, reports, outcome,
             step, calls, step_reports>>

fgVars == <<fg_store, fg_nwrites, fg_last, fg_calls, fg_expect>>

dataVars == <<da_pc, da_args, files, clock, dirs, json_files, tl_last,
              tl_calls>>

logVars == <<ld_log>>

idVars == <<id_pc, id_resources, id_verbose, id_idx, id_device, scpi_devices,
            id_error, id_opened, id_closed, id_printed>>

sessVars == <<eq_objs, eq_last, idVars, insts>>

nonEnvVars == <<fgVars, dataVars, logVars, sessVars>>

nonFgVars == <<envVars, dataVars, logVars, sessVars>>

nonDataVars == <<envVars, fgVars, sessVars>>

nonFileVars == <<nonDataVars, logVars>>

nonSessVars == <<envVars, fgVars, dataVars, logVars>>

vars == <<envVars, fgVars, dataVars, logVars, sessVars>>

\* ------------------------------------------------------------------------
\* Bounds
\* ------------------------------------------------------------------------
MaxDevices == 3
MaxSteps == 2

\* ------------------------------------------------------------------------
\* Helpers
\* ------------------------------------------------------------------------
SeqsUpTo(S, n) == UNION {[1..k -> S] : k \in 0..n}

Range(s) == {s[i] : i \in 1..Len(s)}

Distinct(s) == \A i, j \in 1..Len(s) : i # j => s[i] # s[j]

\* ------------------------------------------------------------------------
\* EnvironmentSetup
\* ------------------------------------------------------------------------
NameTable == <<"source_v_in", "dmm", "fgen", "scope", "sink", "daq">>

DeviceNames == {NameTable[i] : i \in 1..MaxDevices}

\* The members of a connected driver instance that an init sequence may name:
\* two public methods, a special method, a plain attribute.
Members == {
    [name |-> "set_voltage", callable |-> TRUE,  dunder |-> FALSE],
    [name |-> "off",         callable |-> TRUE,  dunder |-> FALSE],
    [name |-> "__del__",     callable |-> TRUE,  dunder |-> TRUE],
    [name |-> "address",     callable |-> FALSE, dunder |-> FALSE] }

\* _get_callable_methods: callable members whose name holds no "__".
_get_callable_methods ==
    {m.name : m \in {x \in Members : x.callable /\ ~x.dunder}}

\* The (method name, keyword arguments) pairs an entry's "init" may hold.
\* kwargs "bad" is a mapping the method's signature does not accept.
StepSet == {
    [method_name |-> "set_voltage", method_kwargs |-> "good"],
    [method_name |-> "set_voltage", method_kwargs |-> "bad"],
    [method_name |-> "__del__",     method_kwargs |-> "good"] }

InfoSet ==
    {[has_init |-> FALSE, init |-> <<>>]}
    \cup {[has_init |-> TRUE, init |-> s] : s \in SeqsUpTo(StepSet, MaxSteps)}

NoInfo == [has_init |-> FALSE, init |-> <<>>]

NoError == [type |-> "none", where |-> "none", args |-> {}]

Raise(type, where, args) == [type |-> type, where |-> where, args |-> args]

\* Exceptions of the transport, and those of driver resolution.
TransportErrors == {"VisaIOError", "ConnectionError"}
ResolutionErrors == {"ModuleNotFoundError", "AttributeError"}

\* The keys of a configuration, in insertion order, drawn from some names.
ConfigurationsOver(names) ==
    {s \in SeqsUpTo(names, MaxDevices) : Distinct(s)}

Configurations == ConfigurationsOver(DeviceNames)

\* Device names of which one is the name of an attribute EnvironmentSetup
\* keeps for itself.
ShadowNames == {"object_mask"} \cup {NameTable[i] : i \in 1..(MaxDevices - 1)}

EnvInitOver(names) ==
    /\ pc = "read_configuration"
    /\ equipment_setup \in
          {[type |-> "dict", keys |-> s] : s \in ConfigurationsOver(names)}
          \cup {[type |-> "list", keys |-> <<>>]}
    /\ configuration = <<>>
    /\ object_mask \in SUBSET names
    /\ init \in BOOLEAN
    /\ verbose \in BOOLEAN
    /\ idx = 0
    /\ info = NoInfo
    /\ attrs = {}
    /\ error = NoError
    /\ opens = 0
    /\ resolved = <<>>
    /\ reports = {}
    /\ outcome = {}
    /\ step = 0
    /\ calls = <<>>
    /\ step_reports = {}

EnvInit == EnvInitOver(DeviceNames)

\* read_configuration: anything but a str, Path or dict is refused; a dict is
\* stored as it is.
read_configuration ==
    /\ pc = "read_configuration"
    /\ UNCHANGED nonEnvVars
    /\ IF equipment_setup.type = "dict"
       THEN /\ configuration' = equipment_setup.keys
            /\ pc' = "check_mask"
            /\ error' = error
       ELSE /\ error' = Raise("ValueError", "read_configuration", {})
            /\ pc' = "raised"
            /\ configuration' = configuration
    /\ UNCHANGED <<equipment_setup, object_mask, init, verbose, idx, info,
                   attrs, opens, resolved, reports, outcome, step, calls,
                   step_reports>>

\* check_mask: with a mask, every masked name must be a key of the
\* configuration; the names that are not are the ValueError's payload.
common == Range(configuration) \cap object_mask

\* Mutant of MissingNames: the payload is the whole mask.
MissingNames_whole_mask == object_mask

\* self.object_mask.difference(common)
MissingNames == object_mask \ common

check_mask ==
    /\ pc = "check_mask"
    /\ UNCHANGED nonEnvVars
    /\ IF object_mask = {}
       THEN pc' = "connect" /\ error' = error
       ELSE IF common # object_mask
            THEN /\ error' = Raise("ValueError", "check_mask",
                                   MissingNames)
                 /\ pc' = "raised"
            ELSE pc' = "connect" /\ error' = error
    /\ UNCHANGED <<equipment_setup, configuration, object_mask, init, verbose,
                   idx, info, attrs, opens, resolved, reports, outcome, step,
                   calls, step_reports>>

\* ---- connect_to_devices ----

\* The name the for loop is at.
name == configuration[idx]

\* "if kwargs.get('verbose', True): print(...)": printed is what was
\* printed for the entry so far.
Report(printed, what) ==
    IF verbose THEN printed \cup {<<name, what>>} ELSE printed

\* Mutants of Escalates: every failure is raised; no failure is raised.
Escalates_always == TRUE
Escalates_never == FALSE

\* Whether the except clauses re-raise: "if self.object_mask:".  The
\* attribute is read from vars(self), the dictionary in which line 377 binds
\* the driver instances: an instance bound under the name 'object_mask' has
\* replaced the set of line 308, and an instance is true.
Escalates == object_mask # {} \/ "object_mask" \in attrs

\* except (VisaIOError, ConnectionError): printed, and raised as a
\* ResourceConnectionError when a mask was given; else the loop goes on.
FailedConnection(tag, printed) ==
    /\ reports' = Report(printed, "FAILED CONNECTION")
    /\ outcome' = outcome \cup {<<name, tag>>}
    /\ IF Escalates
       THEN /\ error' = Raise("ResourceConnectionError", "connect_to_devices", {})
            /\ pc' = "raised"
            /\ idx' = idx
       ELSE /\ error' = error
            /\ pc' = "loop"
            /\ idx' = idx + 1

\* Mutant of UnsupportedDevice: a resolution failure is handled by the
\* clause of the transport failures.
UnsupportedDevice_as_connection(tag, printed) == FailedConnection(tag, printed)

\* except (ModuleNotFoundError, AttributeError): printed, and raised as an
\* UnsupportedResourceError when a mask was given; else the loop goes on.
UnsupportedDevice(tag, printed) ==
    /\ reports' = Report(printed, "UNSUPPORTED DEVICE")
    /\ outcome' = outcome \cup {<<name, tag>>}
    /\ IF Escalates
       THEN /\ error' = Raise("UnsupportedResourceError", "connect_to_devices", {})
            /\ pc' = "raised"
            /\ idx' = idx
       ELSE /\ error' = error
            /\ pc' = "loop"
            /\ idx' = idx + 1

\* Any other exception of a driver is caught by neither clause and leaves
\* the constructor as it is.
Uncaught(type, tag) ==
    /\ reports' = reports
    /\ outcome' = outcome \cup {<<name, tag>>}
    /\ error' = Raise(type, "driver", {})
    /\ pc' = "raised"
    /\ idx' = idx

\* Mutant of MaskFilter: no entry is removed.
MaskFilter_keep_all(config) == config

\* "if self.object_mask: ... self.configuration.pop(device)": the entries
\* outside a mask are removed; the others keep their order.
InMask(n) == n \in object_mask

MaskFilter(config) ==
    IF object_mask # {} THEN SelectSeq(config, InMask) ELSE config

connect_begin ==
    /\ pc = "connect"
    /\ UNCHANGED nonEnvVars
    /\ configuration' = MaskFilter(configuration)
    /\ idx' = 1
    /\ pc' = "loop"
    /\ UNCHANGED <<equipment_setup, object_mask, init, verbose, info, attrs,
                   error, opens, resolved, reports, outcome, step, calls,
                   step_reports>>

\* The outcomes of import_module and getattr(Module, info['object']).
ResolveOutcomes == {"ok"} \cup ResolutionErrors

\* import_module(info['definition']); getattr(Module, info['object'])
resolve_entry ==
    /\ pc = "loop"
    /\ UNCHANGED nonEnvVars
    /\ idx <= Len(configuration)
    /\ resolved' = Append(resolved, name)
    /\ info' = NoInfo
    /\ step' = 0
    /\ calls' = <<>>
    /\ step_reports' = {}
    /\ \E r \in ResolveOutcomes :
          IF r = "ok"
          THEN /\ pc' = "construct"
               /\ reports' = {}
               /\ UNCHANGED <<idx, error, outcome>>
          ELSE UnsupportedDevice("resolution_failed", {})
    /\ UNCHANGED <<equipment_setup, configuration, object_mask, init, verbose,
                   attrs, opens>>

\* The for loop of connect_to_devices is exhausted: the constructor returns.
loop_end ==
    /\ pc = "loop"
    /\ UNCHANGED nonEnvVars
    /\ idx > Len(configuration)
    /\ pc' = "done"
    /\ UNCHANGED <<equipment_setup, configuration, object_mask, init, verbose,
                   idx, info, attrs, error, opens, resolved, reports, outcome,
                   step, calls, step_reports>>

\* The outcomes of Class(info['address'], **obj_kwargs): the transport opens,
\* the transport fails, or the driver raises something else.
ConstructOutcomes == {"ok"} \cup TransportErrors \cup {"ValueError"}

\* Mutant of Bind: the name is not bound.
Bind_nothing(a, n) == a

\* vars(self)[name] = Class(...): the name becomes an attribute.
Bind(a, n) == a \cup {n}

\* "if kwargs.get('init', False) and ('init' in info)"
WantsInit(i) == init /\ i.has_init

construct ==
    /\ pc = "construct"
    /\ UNCHANGED nonEnvVars
    /\ opens' = opens + 1
    /\ \E r \in ConstructOutcomes :
          CASE r = "ok" ->
                 \E i \in (IF init THEN InfoSet ELSE {NoInfo}) :
                    /\ info' = i
                    /\ attrs' = Bind(attrs, name)
                    /\ reports' = Report(reports, "CONNECTED")
                    /\ outcome' = outcome \cup {<<name, "constructed">>}
                    /\ error' = error
                    /\ IF WantsInit(i)
                       THEN pc' = "init" /\ step' = 1 /\ idx' = idx
                       ELSE pc' = "loop" /\ step' = step /\ idx' = idx + 1
            [] r \in TransportErrors ->
                 /\ FailedConnection("open_failed", reports)
                 /\ UNCHANGED <<info, attrs, step>>
            [] OTHER ->
                 /\ Uncaught(r, "construct_raised")
                 /\ UNCHANGED <<info, attrs, step>>
    /\ UNCHANGED <<equipment_setup, configuration, object_mask, init, verbose,
                   resolved, calls, step_reports>>

\* ---- initiaize_device ----

\* The outcomes of func(**method_kwargs) when the keyword arguments fit.
CallOutcomes ==
    {"ok"} \cup TransportErrors \cup {"AttributeError", "ValueError"}

\* The for loop of initiaize_device is exhausted: back in connect_to_devices,
\* which prints "Initialzed" and goes to the next entry.
init_end ==
    /\ pc = "init"
    /\ UNCHANGED nonEnvVars
    /\ step > Len(info.init)
    /\ reports' = Report(reports, "Initialzed")
    /\ pc' = "loop"
    /\ idx' = idx + 1
    /\ UNCHANGED <<equipment_setup, configuration, object_mask, init, verbose,
                   info, attrs, error, opens, resolved, outcome, step, calls,
                   step_reports>>

\* "if method_name in valid_cmds" fails: the pair is passed over in silence.
init_skip ==
    /\ pc = "init"
    /\ UNCHANGED nonEnvVars
    /\ step <= Len(info.init)
    /\ info.init[step].method_name \notin _get_callable_methods
    /\ step' = step + 1
    /\ UNCHANGED <<pc, equipment_setup, configuration, object_mask, init,
                   verbose, idx, info, attrs, error, opens, resolved, reports,
                   outcome, calls, step_reports>>

\* Mutant of AfterTypeError: the TypeError ends the whole sequence.
AfterTypeError_abort(s) == Len(info.init) + 1

\* After a caught TypeError the for loop goes to the next pair.
AfterTypeError(s) == s + 1

\* func(**method_kwargs) inside try / except TypeError.
init_call ==
    /\ pc = "init"
    /\ UNCHANGED nonEnvVars
    /\ step <= Len(info.init)
    /\ info.init[step].method_name \in _get_callable_methods
    /\ calls' = Append(calls, step)
    /\ IF info.init[step].method_kwargs = "bad"
       THEN \* TypeError: printed, the step is over
            /\ step_reports' = step_reports \cup {step}
            /\ step' = AfterTypeError(step)
            /\ UNCHANGED <<pc, idx, error, reports, outcome>>
       ELSE \E r \in CallOutcomes :
               CASE r = "ok" ->
                      /\ step' = step + 1
                      /\ UNCHANGED <<pc, idx, error, reports, outcome,
                                     step_reports>>
                 [] r \in TransportErrors ->
                      /\ FailedConnection("init_transport_failed", reports)
                      /\ UNCHANGED <<step, step_reports>>
                 [] r = "AttributeError" ->
                      /\ UnsupportedDevice("init_attribute_error", reports)
                      /\ UNCHANGED <<step, step_reports>>
                 [] OTHER ->
                      /\ Uncaught(r, "init_raised")
                      /\ UNCHANGED <<step, step_reports>>
    /\ UNCHANGED <<equipment_setup, configuration, object_mask, init, verbose,
                   info, attrs, opens, resolved>>

\* ------------------------------------------------------------------------
\* Keysight_33500B
\* ------------------------------------------------------------------------
NumSources == 2
MaxCalls == 2
MaxFreqCalls == 3

Sources == 1..NumSources

\* Text is a sequence of one-character strings; str.upper maps it
\* character by character.
LowerCase == <<"a", "b", "c", "d", "e", "f", "g", "h", "i", "j", "k", "l", "m",
               "n", "o", "p", "q", "r", "s", "t", "u", "v", "w", "x", "y", "z">>
UpperCase == <<"A", "B", "C", "D", "E", "F", "G", "H", "I", "J", "K", "L", "M",
               "N", "O", "P", "Q", "R", "S", "T", "U", "V", "W", "X", "Y", "Z">>

UpperChar(c) ==
    IF \E i \in 1..26 : LowerCase[i] = c
    THEN UpperCase[CHOOSE i \in 1..26 : LowerCase[i] = c]
    ELSE c

upper(text) == [i \in 1..Len(text) |-> UpperChar(text[i])]

\* Python values: a str (s), an int (n) or a float (n tenths).
StrV(text) == [t |-> "str", n |-> 0, s |-> text]
IntV(k) == [t |-> "int", n |-> k, s |-> <<>>]
FloatV(m) == [t |-> "float", n |-> m, s |-> <<>>]
NoneV == [t |-> "None", n |-> 0, s |-> <<>>]

isinstance_int(v) == v.t = "int"
isinstance_float(v) == v.t = "float"
isinstance_str(v) == v.t = "str"

Digits == <<"0", "1", "2", "3", "4", "5", "6", "7", "8", "9">>

RECURSIVE NatStr(_)
NatStr(k) ==
    IF k < 10 THEN <<Digits[k + 1]>>
    ELSE NatStr(k \div 10) \o <<Digits[(k % 10) + 1]>>

Abs(k) == IF k < 0 THEN -k ELSE k

Sign(k) == IF k < 0 THEN <<"-">> ELSE <<>>

\* str(int) and str(float): a float of m tenths prints its integer part, a
\* point and one decimal ('2.5', '1000.0').
IntStr(k) == Sign(k) \o NatStr(Abs(k))
FloatStr(m) ==
    Sign(m) \o NatStr(Abs(m) \div 10) \o <<".">> \o <<Digits[(Abs(m) % 10) + 1]>>

\* What an f-string writes for {value}.
Str(v) ==
    CASE v.t = "str" -> v.s
      [] v.t = "int" -> IntStr(v.n)
      [] v.t = "float" -> FloatStr(v.n)
      [] OTHER -> <<"N", "o", "n", "e">>

IsDigit(c) == \E i \in 1..10 : Digits[i] = c
DigitVal(c) == (CHOOSE i \in 1..10 : Digits[i] = c) - 1

RECURSIVE NatVal(_)
NatVal(text) ==
    IF text = <<>> THEN 0
    ELSE 10 * NatVal(SubSeq(text, 1, Len(text) - 1)) + DigitVal(text[Len(text)])

AllDigits(text) == \A i \in 1..Len(text) : IsDigit(text[i])

\* float(response) for a decimal literal: sign, integer digits, and at most
\* one decimal after the point (the floats of the model are tenths).
Unsigned(text) ==
    IF text # <<>> /\ text[1] = "-" THEN SubSeq(text, 2, Len(text)) ELSE text
PointAt(text) ==
    IF \E i \in 1..Len(text) : text[i] = "."
    THEN CHOOSE i \in 1..Len(text) : text[i] = "."
    ELSE Len(text) + 1
IntPart(text) == SubSeq(Unsigned(text), 1, PointAt(Unsigned(text)) - 1)
FracPart(text) ==
    SubSeq(Unsigned(text), PointAt(Unsigned(text)) + 1, Len(Unsigned(text)))
IsFloatLiteral(text) ==
    /\ AllDigits(IntPart(text))
    /\ AllDigits(FracPart(text))
    /\ Len(IntPart(text)) + Len(FracPart(text)) > 0
    /\ Len(FracPart(text)) <= 1
FloatTenths(text) ==
    (IF text # <<>> /\ text[1] = "-" THEN -1 ELSE 1)
    * (10 * NatVal(IntPart(text))
       + (IF FracPart(text) = <<>> THEN 0 ELSE DigitVal(FracPart(text)[1])))

None == [t |-> "None", n |-> 0]
ValueError == [t |-> "ValueError", n |-> 0]
VisaIOError == [t |-> "VisaIOError", n |-> 0]
ReturnFloat(m) == [t |-> "float", n |-> m]

float(text) == IF IsFloatLiteral(text) THEN ReturnFloat(FloatTenths(text))
               ELSE ValueError

\* 'SOUR{source}<node>'
SourHdr(source, node) == "SOUR" \o ToString(source) \o node

\* The command '<hdr> <arg>' handed to self.instrument.write.
Cmd(hdr, arg) == [hdr |-> hdr, arg |-> arg]

\* The mock instrument keeps the argument of the last write per header.
Store(store, c) == {e \in store : e.hdr # c.hdr} \cup {c}

RECURSIVE ApplyWrites(_, _)
ApplyWrites(store, written) ==
    IF written = <<>> THEN store
    ELSE ApplyWrites(Store(store, Head(written)), Tail(written))

\* self.instrument.query('<hdr>?'): the mock answers with what it keeps for
\* the header the query names; with nothing kept the query times out.
Answered(query) == \E e \in fg_store : (e.hdr \o "?") = query
Answer(query) == (CHOOSE e \in fg_store : (e.hdr \o "?") = query).arg

\* The sets the driver tests upper-cased arguments against.
valid_wave_types == {<<"A", "R", "B">>, <<"D", "C">>, <<"N", "O", "I", "S">>, <<"P", "R", "B", "S">>, <<"P", "U", "L", "S", "E">>, <<"R", "A", "M", "P">>, <<"S", "I", "N">>, <<"S", "Q", "U">>, <<"T", "R", "I">>}
Which_both == <<"B", "O", "T", "H">>
Which_rise == {<<"R", "I", "S", "E">>, <<"R", "I", "S", "I", "N", "G">>, <<"R">>, <<"L", "E", "A", "D">>, <<"L", "E", "A", "D", "I", "N", "G">>}
Which_fall == {<<"F", "A", "L", "L">>, <<"F", "A", "L", "L", "I", "N", "G">>, <<"F">>, <<"T", "R", "A", "I", "L">>, <<"T", "R", "A", "I", "L", "I", "N", "G">>}
Hold_options == {<<"D", "C", "Y", "C">>, <<"W", "I", "D", "T">>}
Mode_options == {<<"T", "R", "I", "G">>, <<"G", "A", "T">>}
Polarity_options == {<<"N", "O", "R", "M">>, <<"I", "N", "V">>}
Ncycles_options == {<<"I", "N", "F">>, <<"M", "I", "N">>, <<"M", "A", "X">>}
Phase_options == {<<"M", "I", "N">>, <<"M", "A", "X">>}

\* The arguments the calls are made with.
WaveTypeArgs == {StrV(x) : x \in {<<"S", "I", "N">>, <<"s", "i", "n">>, <<"F", "O", "O">>}}
WhichArgs == {StrV(x) : x \in {<<"b", "o", "t", "h">>, <<"R", "I", "S", "E">>, <<"f">>, <<"u", "p">>}}
HoldArgs == {StrV(x) : x \in {<<"D", "C", "Y", "C">>, <<"w", "i", "d", "t">>, <<"x">>}}
ModeArgs == {StrV(x) : x \in {<<"T", "R", "I", "G">>, <<"g", "a", "t">>, <<"B", "U", "R", "S", "T">>}}
PolarityArgs == {StrV(x) : x \in {<<"N", "O", "R", "M">>, <<"i", "n", "v">>, <<"P", "O", "S">>}}
NcyclesArgs == {IntV(3), FloatV(30)} \cup {StrV(x) : x \in {<<"i", "n", "f">>, <<"M", "A", "X">>, <<"f", "o", "o">>}}
PhaseArgs == {IntV(90), FloatV(905)} \cup {StrV(x) : x \in {<<"m", "i", "n">>, <<"f", "o", "o">>}}
EdgeTimes == {FloatV(5)}
Frequencies == {FloatV(0), FloatV(25), FloatV(10000), IntV(50), FloatV(-15)}

FgIdle ==
    /\ fg_store = {}
    /\ fg_nwrites = 0
    /\ fg_last = [op |-> "none", source |-> 0, arg |-> NoneV, aux |-> NoneV,
                  written |-> <<>>, result |-> None]
    /\ fg_calls = 0
    /\ fg_expect = [src \in Sources |-> NoneV]

\* A driver call is over: what it wrote reached the instrument.
FgReturn(op, source, arg, aux, written, result) ==
    /\ fg_last' = [op |-> op, source |-> source, arg |-> arg, aux |-> aux,
                   written |-> written, result |-> result]
    /\ fg_store' = ApplyWrites(fg_store, written)
    /\ fg_nwrites' = fg_nwrites + Len(written)
    /\ fg_calls' = fg_calls + 1

set_wave_type(wave_type, source) ==
    /\ FgReturn("set_wave_type", source, wave_type, NoneV,
                <<Cmd(SourHdr(source, ":FUNC"), Str(wave_type))>>, None)
    /\ UNCHANGED fg_expect

PulseEdgeNode(which) ==
    IF which = Which_both THEN ":FUNC:PULSE:TRAN"
    ELSE IF which \in Which_rise THEN ":FUNC:PULSE:TRAN:LEAD"
    ELSE IF which \in Which_fall THEN ":FUNC:PULSE:TRAN:TRA"
    ELSE ""

set_pulse_edge_time(time, which, source) ==
    /\ LET node == PulseEdgeNode(upper(which.s)) IN
       FgReturn("set_pulse_edge_time", source, which, time,
                IF node # "" THEN <<Cmd(SourHdr(source, node), Str(time))>>
                ELSE <<>>,
                None)
    /\ UNCHANGED fg_expect

\* The setters that refuse an argument outside their options.
CheckedSetter(op, node, options, arg, source) ==
    /\ IF upper(arg.s) \notin options
       THEN FgReturn(op, source, arg, NoneV, <<>>, ValueError)
       ELSE FgReturn(op, source, arg, NoneV,
                     <<Cmd(SourHdr(source, node), upper(arg.s))>>, None)
    /\ UNCHANGED fg_expect

set_pulse_hold(param, source) ==
    CheckedSetter("set_pulse_hold", ":FUNC:PULSE:HOLD", Hold_options, param,
                  source)

set_burst_mode(mode, source) ==
    CheckedSetter("set_burst_mode", ":BURS:MODE", Mode_options, mode, source)

set_burst_gate_polarity(polarity, source) ==
    CheckedSetter("set_burst_gate_polarity", ":BURS:GATE:POL",
                  Polarity_options, polarity, source)

\* The setters of a number that also take a few words.
SentinelSetter(op, node, is_number, options, arg, source) ==
    /\ IF is_number
       THEN FgReturn(op, source, arg, NoneV,
                     <<Cmd(SourHdr(source, node), Str(arg))>>, None)
       ELSE IF isinstance_str(arg) /\ upper(arg.s) \in options
       THEN FgReturn(op, source, arg, NoneV,
                     <<Cmd(SourHdr(source, node), upper(arg.s))>>, None)
       ELSE FgReturn(op, source, arg, NoneV, <<>>, ValueError)
    /\ UNCHANGED fg_expect

set_burst_ncycles(ncycles, source) ==
    SentinelSetter("set_burst_ncycles", ":BURS:NCYC", isinstance_int(ncycles),
                   Ncycles_options, ncycles, source)

set_burst_phase(phase, source) ==
    SentinelSetter("set_burst_phase", ":BURS:PHASE", isinstance_float(phase),
                   Phase_options, phase, source)

set_frequency(frequency, source) ==
    /\ FgReturn("set_frequency", source, frequency, NoneV,
                <<Cmd(SourHdr(source, ":FREQ"), Str(frequency))>>, None)
    /\ fg_expect' = [fg_expect EXCEPT ![source] = frequency]

\* Mutant of FreqQuery: the source argument is ignored.
FreqQuery_source1(source) == SourHdr(1, ":FREQ") \o "?"

\* The header get_frequency queries.
FreqQuery(source) == SourHdr(source, ":FREQ") \o "?"

get_frequency(source) ==
    /\ FgReturn("get_frequency", source, NoneV, NoneV, <<>>,
                IF Answered(FreqQuery(source))
                THEN float(Answer(FreqQuery(source)))
                ELSE VisaIOError)
    /\ UNCHANGED fg_expect

\* ---- set_waveform_config / get_waveform_config ----
MaxWaveCalls == 1

LowerChar(c) ==
    IF \E i \in 1..26 : UpperCase[i] = c
    THEN LowerCase[CHOOSE i \in 1..26 : UpperCase[i] = c]
    ELSE c

\* str.lower
lower(text) == [i \in 1..Len(text) |-> LowerChar(text[i])]

IsSpace(c) == c \in {" ", "\n", "\t", "\r"}

\* str.strip
RECURSIVE strip(_)
strip(text) ==
    IF text = <<>> THEN text
    ELSE IF IsSpace(Head(text)) THEN strip(Tail(text))
    ELSE IF IsSpace(text[Len(text)]) THEN strip(SubSeq(text, 1, Len(text) - 1))
    ELSE text

\* str.replace(c, '')
remove(text, c) == SelectSeq(text, LAMBDA x : x # c)

\* str.split(sep) for a one-character sep: the pieces between separators.
RECURSIVE split_on(_, _)
split_on(text, sep) ==
    IF \E i \in 1..Len(text) : text[i] = sep
    THEN LET i == CHOOSE k \in 1..Len(text) :
                     text[k] = sep /\ \A m \in 1..(k - 1) : text[m] # sep
         IN  <<SubSeq(text, 1, i - 1)>>
             \o split_on(SubSeq(text, i + 1, Len(text)), sep)
    ELSE <<text>>

\* str.split(): the pieces between runs of whitespace, none of them empty.
split(text) ==
    SelectSeq(split_on([i \in 1..Len(text) |->
                           IF IsSpace(text[i]) THEN " " ELSE text[i]], " "),
              LAMBDA piece : piece # <<>>)

\* The text of a str of one-character strings, as one string.
RECURSIVE Join(_)
Join(text) == IF text = <<>> THEN "" ELSE Head(text) \o Join(Tail(text))

IsException(r) == r.t \in {"ValueError", "VisaIOError"}

\* self.instrument.query(f'SOUR{source}<node>?') followed by float().
QueryFloat(source, node) ==
    IF Answered(SourHdr(source, node) \o "?")
    THEN float(Answer(SourHdr(source, node) \o "?"))
    ELSE VisaIOError

get_wave_type(source) ==
    IF Answered(SourHdr(source, ":FUNC") \o "?")
    THEN StrV(lower(strip(Answer(SourHdr(source, ":FUNC") \o "?"))))
    ELSE VisaIOError

get_voltage(source) == QueryFloat(source, ":VOLT")

get_voltage_offset(source) == QueryFloat(source, ":VOLT:OFFS")

\* A keyword argument: given with a value, or left out.
Given(v) == [given |-> TRUE, v |-> v]
Omitted == [given |-> FALSE, v |-> NoneV]

\* kwargs.get(key, default)
kwargs_get(kwargs, key, default) ==
    IF kwargs[key].given THEN kwargs[key].v ELSE default

WaveFields == <<"wave_type", "frequency", "amplitude", "offset">>

\* Mutant of ApplArgs: amplitude and offset change places.
ApplArgs_swapped(frequency, amplitude, offset) ==
    Str(frequency) \o <<",", " ">> \o Str(offset) \o <<",", " ">>
    \o Str(amplitude)

\* '... {}, {}, {}'.format(frequency, amplitude, offset)
ApplArgs(frequency, amplitude, offset) ==
    Str(frequency) \o <<",", " ">> \o Str(amplitude) \o <<",", " ">>
    \o Str(offset)

\* The four defaults are evaluated, by four queries, whether or not the
\* caller gave the field; the first query that fails ends the call.
set_waveform_config(source, kwargs) ==
    /\ LET read == [wave_type |-> get_wave_type(source),
                    frequency |-> QueryFloat(source, ":FREQ"),
                    amplitude |-> get_voltage(source),
                    offset |-> get_voltage_offset(source)]
           failed == {i \in 1..4 : IsException(read[WaveFields[i]])}
           first == CHOOSE i \in failed : \A j \in failed : i <= j
           wave_type == kwargs_get(kwargs, "wave_type", read.wave_type)
           frequency == kwargs_get(kwargs, "frequency", read.frequency)
           amplitude == kwargs_get(kwargs, "amplitude", read.amplitude)
           offset == kwargs_get(kwargs, "offset", read.offset)
       IN  IF failed # {}
           THEN FgReturn("set_waveform_config", source, kwargs, NoneV, <<>>,
                         read[WaveFields[first]])
           ELSE FgReturn("set_waveform_config", source, kwargs, NoneV,
                         <<Cmd(SourHdr(source, ":APPL:" \o Join(Str(wave_type))),
                               ApplArgs(frequency, amplitude, offset))>>,
                         None)
    /\ UNCHANGED fg_expect

ReturnTuple(items) == [t |-> "tuple", n |-> 0, items |-> items]

\* What get_waveform_config makes of the reply to 'SOUR{source}:APPL?'.
ParseAppl(response) ==
    LET words == split(remove(strip(response), "\""))
    IN  IF Len(words) # 2 THEN ValueError
        ELSE LET wave_info == split_on(words[2], ",")
                 numbers == [i \in 1..Len(wave_info) |-> float(wave_info[i])]
             IN  IF \E i \in 1..Len(numbers) : IsException(numbers[i])
                 THEN ValueError
                 ELSE IF Len(numbers) # 3 THEN ValueError
                 ELSE ReturnTuple(<<lower(words[1]), numbers[1].n,
                                    numbers[2].n, numbers[3].n>>)

\* The instrument's reply to APPL? is of the instrument's making; reply is
\* what it sent this time.
get_waveform_config(source, reply) ==
    /\ FgReturn("get_waveform_config", source, NoneV, StrV(reply), <<>>,
                ParseAppl(reply))
    /\ UNCHANGED fg_expect

\* ---- get_pulse_edge_time ----

\* cmd_str + 'LEAD?' and cmd_str + 'TRA?' with
\* cmd_str = f'SOUR{source}:FUNC:PULSE:TRAN': nothing stands between TRAN
\* and the edge's name.
PulseEdgeQueries(which, source) ==
    IF which = Which_both
    THEN <<SourHdr(source, ":FUNC:PULSE:TRAN") \o "LEAD?",
           SourHdr(source, ":FUNC:PULSE:TRAN") \o "TRA?">>
    ELSE IF which \in Which_rise
    THEN <<SourHdr(source, ":FUNC:PULSE:TRAN") \o "LEAD?">>
    ELSE IF which \in Which_fall
    THEN <<SourHdr(source, ":FUNC:PULSE:TRAN") \o "TRA?">>
    ELSE <<>>

\* self.instrument.query(q) followed by float().
QueryAnswer(q) == IF Answered(q) THEN float(Answer(q)) ELSE VisaIOError

get_pulse_edge_time(which, source) ==
    /\ LET W == upper(which.s)
           queries == PulseEdgeQueries(W, source)
           response == [i \in 1..Len(queries) |-> QueryAnswer(queries[i])]
           failed == {i \in 1..Len(response) : IsException(response[i])}
       IN  FgReturn("get_pulse_edge_time", source, which, queries, <<>>,
                    IF W # Which_both /\ W \notin Which_rise
                       /\ W \notin Which_fall
                    THEN ValueError
                    ELSE IF \E i \in failed : response[i] = VisaIOError
                    \* the first query that times out ends the call
                    THEN VisaIOError
                    ELSE IF failed # {} THEN ValueError
                    ELSE IF W = Which_both
                    THEN ReturnTuple(<<response[1].n, response[2].n>>)
                    ELSE response[1])
    /\ UNCHANGED fg_expect

\* The settings an instrument comes up with, per source.
Presets == {
    [func |-> <<"S", "I", "N", "\n">>, freq |-> <<"1", "0", "0", "0", ".", "0">>,
     volt |-> <<"0", ".", "1">>, offs |-> <<"0", ".", "0">>],
    [func |-> <<"S", "Q", "U", "\n">>, freq |-> <<"2", "5">>,
     volt |-> <<"2", ".", "5">>, offs |-> <<"-", "1", ".", "5">>] }

PresetStore(source, p) ==
    {Cmd(SourHdr(source, ":FUNC"), p.func), Cmd(SourHdr(source, ":FREQ"), p.freq),
     Cmd(SourHdr(source, ":VOLT"), p.volt),
     Cmd(SourHdr(source, ":VOLT:OFFS"), p.offs)}

\* The replies to APPL?: '"<FUNC> <freq>,<amplitude>,<offset>"\n'.
ApplReply(p) ==
    <<"\"">> \o strip(p.func) \o <<" ">> \o p.freq \o <<",">> \o p.volt
    \o <<",">> \o p.offs \o <<"\"", "\n">>

ApplReplies == {ApplReply(p) : p \in Presets}

\* The keyword arguments of the set_waveform_config calls.
WaveKwargs ==
    [wave_type : {Omitted, Given(StrV(<<"R", "A", "M", "P">>))},
     frequency : {Omitted, Given(IntV(50))},
     amplitude : {Omitted, Given(FloatV(35))},
     offset : {Omitted, Given(FloatV(-5))}]

WaveIdle ==
    /\ fg_store \in {UNION {PresetStore(src, f[src]) : src \in Sources}
                     : f \in [Sources -> Presets]}
    /\ fg_nwrites = 0
    /\ fg_last = [op |-> "none", source |-> 0, arg |-> NoneV, aux |-> NoneV,
                  written |-> <<>>, result |-> None]
    /\ fg_calls = 0
    /\ fg_expect = [src \in Sources |-> NoneV]

EnvIdle ==
    /\ pc = "done"
    /\ equipment_setup = [type |-> "dict", keys |-> <<>>]
    /\ configuration = <<>>
    /\ object_mask = {}
    /\ init = FALSE
    /\ verbose = TRUE
    /\ idx = 0
    /\ info = NoInfo
    /\ attrs = {}
    /\ error = NoError
    /\ opens = 0
    /\ resolved = <<>>
    /\ reports = {}
    /\ outcome = {}
    /\ step = 0
    /\ calls = <<>>
    /\ step_reports = {}

\* ------------------------------------------------------------------------
\* Scpi_Instrument (__core.py): comparison
\* ------------------------------------------------------------------------
NumAddresses == 2

\* The operands of the comparisons: transitivity needs three.
Operands == {1, 2, 3}

AddressTable == <<"USB0::0x0957::0x2C07::INSTR", "GPIB0::14::INSTR",
                  "ASRL3::INSTR", "TCPIP0::192.168.0.5::INSTR">>

Addresses == {AddressTable[i] : i \in 1..NumAddresses}

\* Python classes.  A class is named by its module and its __name__; scpi
\* tells whether it is Scpi_Instrument or inherits from it.
Scpi_Instrument_class ==
    [module |-> "pythonequipmentdrivers.__core",
     name |-> "Scpi_Instrument", scpi |-> TRUE]

Keysight_33500B_class ==
    [module |-> "pythonequipmentdrivers.functiongenerator.Keysight_33500B",
     name |-> "Keysight_33500B", scpi |-> TRUE]

\* A driver a test bench defines for itself under a name that is in use.
Bench_Keysight_33500B_class ==
    [module |-> "bench.drivers", name |-> "Keysight_33500B", scpi |-> TRUE]

str_class == [module |-> "builtins", name |-> "str", scpi |-> FALSE]

DriverClasses ==
    {Scpi_Instrument_class, Keysight_33500B_class, Bench_Keysight_33500B_class}

Timeouts == {1000, 5000}

\* The k-th object under comparison.  Every constructed driver instance owns
\* the transport object open_resource returned to it (number k); an object
\* of another type has neither address nor transport.
Instances(k) ==
    [class : DriverClasses, address : Addresses, instrument : {k},
     timeout : Timeouts]

OtherObjects ==
    {[class |-> str_class, address |-> "", instrument |-> 0, timeout |-> 0]}

isinstance_Scpi_Instrument(obj) == obj.class.scpi

\* Mutant of __eq__: the transport objects are compared as well.
__eq___same_transport(self, obj) ==
    /\ isinstance_Scpi_Instrument(obj)
    /\ self.class.name = obj.class.name
    /\ self.address = obj.address
    /\ self.instrument = obj.instrument

__eq__(self, obj) ==
    IF ~isinstance_Scpi_Instrument(obj) THEN FALSE
    ELSE IF ~(self.class.name = obj.class.name) THEN FALSE
    ELSE IF ~(self.address = obj.address) THEN FALSE
    ELSE TRUE

__ne__(self, obj) == ~__eq__(self, obj)

NoComparison == [op |-> "none", i |-> 0, j |-> 0, result |-> FALSE]

EqInit ==
    /\ eq_objs \in {f \in [Operands -> UNION {Instances(k) \cup OtherObjects
                                                   : k \in Operands}] :
                      \A k \in Operands :
                         f[k] \in Instances(k) \cup OtherObjects}
    /\ eq_last = NoComparison

EqIdle ==
    /\ eq_objs = <<>>
    /\ eq_last = NoComparison

\* ------------------------------------------------------------------------
\* identify_devices (__core.py)
\* ------------------------------------------------------------------------
MaxResources == 3

\* What the device at an address does: it opens and answers *IDN?, it opens
\* and the query times out, rm.open_resource fails.
ResourceKinds == {"answers", "no_answer", "no_open"}

\* rm.list_resources(): the k-th enumerated address and how its device
\* behaves.
ResourceLists ==
    UNION {[1..n -> ResourceKinds] : n \in 0..MaxResources}

ResourceAddress(k) == "ASRL" \o ToString(k) \o "::INSTR"

\* device.idn
IdnResponse(address) == "Keysight Technologies,33522B," \o address

IdInit ==
    /\ id_pc = "loop"
    /\ id_resources \in ResourceLists
    /\ id_verbose \in BOOLEAN
    /\ id_idx = 1
    /\ id_device = 0
    /\ scpi_devices = <<>>
    /\ id_error = "none"
    /\ id_opened = {}
    /\ id_closed = {}
    /\ id_printed = 0

IdIdle ==
    /\ id_pc = "returned"
    /\ id_resources = <<>>
    /\ id_verbose = FALSE
    /\ id_idx = 1
    /\ id_device = 0
    /\ scpi_devices = <<>>
    /\ id_error = "none"
    /\ id_opened = {}
    /\ id_closed = {}
    /\ id_printed = 0

\* finally: del(device).  Unbinding the last reference disposes the instance
\* (__del__ closes its transport); unbinding a name that is not bound raises
\* UnboundLocalError.
DelDevice(device) ==
    IF device = 0
    THEN [raises |-> TRUE, disposed |-> {}]
    ELSE [raises |-> FALSE, disposed |-> {device}]

\* One pass of the for loop: try, except pyvisa.Error, finally.
identify_address ==
    /\ id_pc = "loop"
    /\ id_idx <= Len(id_resources)
    /\ LET kind == id_resources[id_idx]
           address == ResourceAddress(id_idx)
           \* device = Scpi_Instrument(address) binds the name only when the
           \* constructor returns
           device == IF kind = "no_open" THEN id_device ELSE id_idx
           del == DelDevice(device)
       IN  /\ id_opened' = IF kind = "no_open" THEN id_opened
                           ELSE id_opened \cup {id_idx}
           /\ scpi_devices' =
                 IF kind = "answers"
                 THEN Append(scpi_devices, <<address, IdnResponse(address)>>)
                 ELSE scpi_devices
           /\ id_printed' = IF id_verbose THEN id_printed + 1 ELSE id_printed
           /\ id_closed' = id_closed \cup del.disposed
           /\ id_device' = 0
           /\ IF del.raises
              THEN /\ id_pc' = "raised"
                   /\ id_error' = "UnboundLocalError"
                   /\ UNCHANGED id_idx
              ELSE /\ id_idx' = id_idx + 1
                   /\ UNCHANGED <<id_pc, id_error>>
    /\ UNCHANGED <<id_resources, id_verbose>>
    /\ UNCHANGED <<eq_objs, eq_last, insts>>
    /\ UNCHANGED nonSessVars

\* return scpi_devices
identify_return ==
    /\ id_pc = "loop"
    /\ id_idx > Len(id_resources)
    /\ id_pc' = "returned"
    /\ UNCHANGED <<id_resources, id_verbose, id_idx, id_device, scpi_devices,
                   id_error, id_opened, id_closed, id_printed>>
    /\ UNCHANGED <<eq_objs, eq_last, insts>>
    /\ UNCHANGED nonSessVars

IdentifyNext ==
    \/ identify_address
    \/ identify_return

\* ------------------------------------------------------------------------
\* Scpi_Instrument (__core.py): construction and disposal
\* ------------------------------------------------------------------------
NumInstances == 2
MaxDisposals == 2

InstanceIds == 1..NumInstances

\* An instance that was not constructed yet.  has_instrument tells whether
\* the attribute self.instrument was assigned; transport is the state of the
\* session open_resource returned; closes counts the calls of its close();
\* released counts the times a close() ended an open session; raised is the
\* exception that left the last __del__.
NoInstance ==
    [state |-> "none", has_instrument |-> FALSE, transport |-> "none",
     timeout |-> 0, closes |-> 0, released |-> 0, disposals |-> 0,
     raised |-> "none"]

\* What __init__ can meet: open_resource raises VisaIOError, int(timeout)
\* raises ValueError, neither.
InitOutcomes == {"ok", "open_failed", "timeout_invalid"}

\* Scpi_Instrument.__init__(address, **kwargs)
Scpi_Instrument__init__(k, init_outcome, timeout) ==
    /\ insts[k].state = "none"
    /\ insts' = [insts EXCEPT ![k] =
          IF init_outcome = "open_failed"
          THEN [NoInstance EXCEPT !.state = "failed"]
          ELSE IF init_outcome = "timeout_invalid"
          THEN [NoInstance EXCEPT !.state = "failed",
                                  !.has_instrument = TRUE,
                                  !.transport = "open"]
          ELSE [NoInstance EXCEPT !.state = "constructed",
                                  !.has_instrument = TRUE,
                                  !.transport = "open",
                                  !.timeout = timeout]]
    /\ UNCHANGED <<eq_objs, eq_last, idVars>>
    /\ UNCHANGED nonSessVars

\* Mutant of hasattr_instrument: __del__ does not look for the attribute.
hasattr_instrument_unchecked(inst) == TRUE

\* hasattr(self, 'instrument')
hasattr_instrument(inst) == inst.has_instrument

\* What the transport's close() does on a session that is closed already:
\* that is the transport library's affair; it returns or raises VisaIOError.
ClosedCloseOutcomes == {"returns", "VisaIOError"}

\* Scpi_Instrument.__del__, whether called by hand or by the collector.
Scpi_Instrument__del__(k, close_outcome) ==
    /\ insts[k].state # "none"
    /\ insts[k].disposals < MaxDisposals
    /\ LET inst == insts[k]
       IN  insts' = [insts EXCEPT ![k] =
              IF ~hasattr_instrument(inst)
              THEN [inst EXCEPT !.disposals = @ + 1, !.raised = "none"]
              ELSE IF ~inst.has_instrument
              \* self.instrument is looked up and is not there; the except
              \* clause takes VisaIOError only
              THEN [inst EXCEPT !.disposals = @ + 1,
                                !.raised = "AttributeError"]
              ELSE IF inst.transport = "open"
              THEN [inst EXCEPT !.disposals = @ + 1, !.closes = @ + 1,
                                !.released = @ + 1, !.transport = "closed",
                                !.raised = "none"]
              \* close_outcome = "VisaIOError" is caught: pass
              ELSE [inst EXCEPT !.disposals = @ + 1, !.closes = @ + 1,
                                !.raised = "none"]]
    /\ UNCHANGED <<eq_objs, eq_last, idVars>>
    /\ UNCHANGED nonSessVars

call___init__ ==
    \E k \in InstanceIds, init_outcome \in InitOutcomes, timeout \in Timeouts :
       Scpi_Instrument__init__(k, init_outcome, timeout)

call___del__ ==
    \E k \in InstanceIds, close_outcome \in ClosedCloseOutcomes :
       Scpi_Instrument__del__(k, close_outcome)

InstNext ==
    \/ call___init__
    \/ call___del__

InstInit == insts = [k \in InstanceIds |-> NoInstance]

SessIdle == EqIdle /\ IdIdle /\ InstInit

\* self == obj, for a driver instance self.
call___eq__ ==
    /\ \E i, j \in Operands :
          /\ isinstance_Scpi_Instrument(eq_objs[i])
          /\ eq_last' = [op |-> "__eq__", i |-> i, j |-> j,
                         result |-> __eq__(eq_objs[i], eq_objs[j])]
    /\ UNCHANGED <<eq_objs, idVars, insts>>
    /\ UNCHANGED nonSessVars

\* self != obj, for a driver instance self.
call___ne__ ==
    /\ \E i, j \in Operands :
          /\ isinstance_Scpi_Instrument(eq_objs[i])
          /\ eq_last' = [op |-> "__ne__", i |-> i, j |-> j,
                         result |-> __ne__(eq_objs[i], eq_objs[j])]
    /\ UNCHANGED <<eq_objs, idVars, insts>>
    /\ UNCHANGED nonSessVars

EqNext ==
    \/ call___eq__
    \/ call___ne__

\* ------------------------------------------------------------------------
\* utility/data_management.py
\* ------------------------------------------------------------------------
MaxCols == 2
MaxLen == 5
MaxTime == 2
MaxLogCalls == 2

Max(S) == IF S = {} THEN 0 ELSE CHOOSE x \in S : \A y \in S : y <= x
Min(S) == IF S = {} THEN 0 ELSE CHOOSE x \in S : \A y \in S : x <= y

\* The text of the file at a path; nothing when there is no such file.
Content(path) ==
    IF \E f \in files : f.path = path
    THEN (CHOOSE f \in files : f.path = path).content
    ELSE <<>>

\* open(path, mode) and one print: 'w' replaces the lines, 'a' adds to them.
WriteLines(path, mode, lines) ==
    {f \in files : f.path # path}
    \cup {[path |-> path,
           content |-> IF mode = "w" THEN lines ELSE Content(path) \o lines]}

\* One argument of print: str() of a tuple is its parenthesized repr, str()
\* of anything else is the cell's text.
TupleArg(row) == [tuple |-> TRUE, cells |-> row]
CellArg(c) == [tuple |-> FALSE, cells |-> <<c>>]

\* ---- dump_array_data ----

\* The cell at row k of input sequence j.
Cell(j, k) == "c" \o ToString(j) \o "r" \o ToString(k)

Column(j, len) == [k \in 1..len |-> Cell(j, k)]

DataSets ==
    UNION {{[j \in 1..n |-> Column(j, lens[j])] : lens \in [1..n -> 0..MaxLen]}
           : n \in 1..MaxCols}

Lengths(data) == {Len(data[j]) : j \in 1..Len(data)}

\* zip_longest(*data, fillvalue=fill_value)
zip_longest(data, fill) ==
    [k \in 1..Max(Lengths(data)) |->
        [j \in 1..Len(data) |->
            IF k <= Len(data[j]) THEN data[j][k] ELSE fill]]

\* zip(*data)
zip(data) ==
    [k \in 1..Min(Lengths(data)) |-> [j \in 1..Len(data) |-> data[j][k]]]

\* file_path.parent / f'{file_path.stem}.csv'
ArrayFilePath(file_path) == file_path.parent \o "/" \o file_path.stem \o ".csv"

\* print(*rows, sep=',', end='\n', file=f): every row is one argument of a
\* single print, which writes a single line.
PrintRows(rows) == <<[i \in 1..Len(rows) |-> TupleArg(rows[i])]>>

OldLine == <<CellArg("old")>>

FillNone == [is_none |-> TRUE, v |-> ""]
FillWith(v) == [is_none |-> FALSE, v |-> v]

DumpInit ==
    /\ da_pc = "call"
    /\ da_args \in [file_path : {[parent |-> "out", stem |-> "my_data",
                                  suffix |-> x] : x \in {"", ".v1"}},
                    data : DataSets,
                    init : BOOLEAN,
                    fill_value : {FillNone, FillWith("")},
                    existing : BOOLEAN]
    /\ files = IF da_args.existing
               THEN {[path |-> ArrayFilePath(da_args.file_path),
                      content |-> <<OldLine>>]}
               ELSE {}

dump_array_data ==
    /\ da_pc = "call"
    /\ LET rows == IF ~da_args.fill_value.is_none
                   THEN zip_longest(da_args.data, da_args.fill_value.v)
                   ELSE zip(da_args.data)
       IN  files' = WriteLines(ArrayFilePath(da_args.file_path),
                               IF da_args.init THEN "w" ELSE "a",
                               PrintRows(rows))
    /\ da_pc' = "returned"
    /\ UNCHANGED <<da_args, clock, dirs, json_files, tl_last, tl_calls>>
    /\ UNCHANGED nonFileVars

DumpIdle ==
    /\ da_pc = "returned"
    /\ da_args = [file_path |-> [parent |-> "out", stem |-> "my_data",
                                 suffix |-> ""],
                  data |-> <<>>, init |-> FALSE, fill_value |-> FillNone,
                  existing |-> FALSE]
    /\ files = {}

\* ---- create_test_log ----

Pad2(t) == IF t < 10 THEN "0" \o ToString(t) ELSE ToString(t)

\* strftime(r"%Y%m%d%H%M%S") and strftime(r"%Y/%m/%d %H:%M:%S") at second t.
FileTimeStamp(t) == "202105210959" \o Pad2(t)
RunTime(t) == "2021/05/21 09:59:" \o Pad2(t)

\* test_info.get('test_name', 'test_data')
TestName(test_info) ==
    IF \E kv \in test_info : kv[1] = "test_name"
    THEN (CHOOSE kv \in test_info : kv[1] = "test_name")[2]
    ELSE "test_data"

\* test_info['run_time'] = ...
WithRunTime(test_info, t) ==
    {kv \in test_info : kv[1] # "run_time"} \cup {<<"run_time", RunTime(t)>>}

\* Path(base_dir) / f'{test_name}_{file_t_stamp}'
TestDir(base_dir, test_info, t) ==
    base_dir \o "/" \o TestName(test_info) \o "_" \o FileTimeStamp(t)

\* test_dir / f'log_{file_t_stamp}.txt'
LogFilePath(test_dir, t) == test_dir \o "/log_" \o FileTimeStamp(t) \o ".txt"

\* Mutant of MkdirExists: mkdir(exist_ok=True) never refuses.
MkdirExists_exist_ok(path) == FALSE

\* mkdir(exist_ok=False) raises FileExistsError for a path that exists.
MkdirExists(path) == path \in dirs

TestInfos == {
    {},
    {<<"test_name", "Transients">>},
    {<<"test_name", "test_data">>, <<"dut", "SN0123456789">>},
    {<<"dut", "SN0123456789">>} }

BaseDirs == {"results", "missing"}

LogIdle ==
    /\ clock = 0
    /\ dirs = {"results"}
    /\ json_files = {}
    /\ tl_last = [op |-> "none", base_dir |-> "", target |-> "",
                  result |-> "none", stamp |-> "", test_info |-> {}]
    /\ tl_calls = 0
    /\ ld_log = <<>>

DataIdle == DumpIdle /\ LogIdle

create_test_log(base_dir, images, raw_data, test_info) ==
    /\ tl_calls < MaxLogCalls
    /\ tl_calls' = tl_calls + 1
    /\ \E t2 \in {clock, Min({clock + 1, MaxTime})} :
          LET t1 == clock
              logged == WithRunTime(test_info, t2)
              test_dir == TestDir(base_dir, test_info, t1)
              result == IF MkdirExists(test_dir) THEN "FileExistsError"
                        ELSE IF base_dir \notin dirs THEN "FileNotFoundError"
                        ELSE "ok"
          IN  /\ clock' = t2
              /\ tl_last' = [op |-> "create_test_log", base_dir |-> base_dir,
                             target |-> test_dir, result |-> result,
                             stamp |-> FileTimeStamp(t1),
                             test_info |-> test_info]
              /\ IF result = "ok"
                 THEN /\ dirs' = dirs \cup {test_dir}
                            \cup (IF images THEN {test_dir \o "/images"} ELSE {})
                            \cup (IF raw_data THEN {test_dir \o "/raw_data"}
                                  ELSE {})
                      /\ json_files' =
                            IF logged # {}
                            THEN {f \in json_files :
                                     f.path # LogFilePath(test_dir, t1)}
                                 \cup {[path |-> LogFilePath(test_dir, t1),
                                        data |-> logged]}
                            ELSE json_files
                 ELSE UNCHANGED <<dirs, json_files>>
    /\ UNCHANGED <<da_pc, da_args, files>>
    /\ UNCHANGED nonFileVars

call_create_test_log ==
    \E base_dir \in BaseDirs, images \in BOOLEAN, raw_data \in BOOLEAN,
       test_info \in TestInfos :
       create_test_log(base_dir, images, raw_data, test_info)

\* A second passes.
tick ==
    /\ clock < MaxTime
    /\ clock' = clock + 1
    /\ UNCHANGED <<da_pc, da_args, files, dirs, json_files, tl_last, tl_calls>>
    /\ UNCHANGED nonFileVars

\* ---- log_data ----
MaxLogDataCalls == 3

LogDataPaths ==
    {[parent |-> "out", stem |-> "my_data", suffix |-> x] : x \in {"", ".v1"}}

\* The *data of a call: a header, a row of measurements, nothing.
LogDataRows == {<<"column A", "column B">>, <<"1", "2">>, <<>>}

\* file_path.parent / f'{file_path.name}.csv'
LogFilePathExt(file_path) ==
    file_path.parent \o "/" \o file_path.stem \o file_path.suffix \o ".csv"

\* Mutant of LogMode: the file is always opened to append.
LogMode_append(init_arg) == "a"

\* mode = 'w' if init else 'a'
LogMode(init_arg) == IF init_arg THEN "w" ELSE "a"

\* print(*data, sep=',', file=f): every element is one argument of the
\* print, which writes one line.
PrintData(data) == <<[i \in 1..Len(data) |-> CellArg(data[i])]>>

log_data(file_path, data, init_arg) ==
    /\ Len(ld_log) < MaxLogDataCalls
    /\ files' = WriteLines(LogFilePathExt(file_path), LogMode(init_arg),
                           PrintData(data))
    /\ ld_log' = Append(ld_log, [file_path |-> file_path, data |-> data,
                                 init |-> init_arg])
    /\ UNCHANGED <<da_pc, da_args, clock, dirs, json_files, tl_last, tl_calls>>
    /\ UNCHANGED nonDataVars

call_log_data ==
    \E file_path \in LogDataPaths, data \in LogDataRows, init_arg \in BOOLEAN :
       log_data(file_path, data, init_arg)

LogDataInit == EnvIdle /\ FgIdle /\ DataIdle /\ SessIdle

SpecLogData == LogDataInit /\ [][call_log_data]_vars

DumpSpecInit == EnvIdle /\ FgIdle /\ DumpInit /\ LogIdle /\ SessIdle

SpecDump == DumpSpecInit /\ [][dump_array_data]_vars

LogNext ==
    \/ call_create_test_log
    \/ tick

LogInit == EnvIdle /\ FgIdle /\ DataIdle /\ SessIdle

SpecLog == LogInit /\ [][LogNext]_vars

EqSpecInit == EnvIdle /\ FgIdle /\ DataIdle /\ EqInit /\ IdIdle /\ InstInit

IdSpecInit == EnvIdle /\ FgIdle /\ DataIdle /\ EqIdle /\ IdInit /\ InstInit

SpecIdentify == IdSpecInit /\ [][IdentifyNext]_vars

InstSpecInit == EnvIdle /\ FgIdle /\ DataIdle /\ SessIdle

SpecSession == InstSpecInit /\ [][InstNext]_vars

SpecEq == EqSpecInit /\ [][EqNext]_vars


FgenInit == EnvIdle /\ FgIdle /\ DataIdle /\ SessIdle

\* One driver call, while the bound on calls allows it.
FgCallAllowed(max) == fg_calls < max /\ UNCHANGED nonFgVars

call_set_wave_type ==
    /\ FgCallAllowed(MaxCalls)
    /\ \E w \in WaveTypeArgs, src \in Sources : set_wave_type(w, src)

call_set_pulse_edge_time ==
    /\ FgCallAllowed(MaxCalls)
    /\ \E tm \in EdgeTimes, w \in WhichArgs, src \in Sources :
          set_pulse_edge_time(tm, w, src)

call_set_pulse_hold ==
    /\ FgCallAllowed(MaxCalls)
    /\ \E a \in HoldArgs, src \in Sources : set_pulse_hold(a, src)

call_set_burst_mode ==
    /\ FgCallAllowed(MaxCalls)
    /\ \E a \in ModeArgs, src \in Sources : set_burst_mode(a, src)

call_set_burst_gate_polarity ==
    /\ FgCallAllowed(MaxCalls)
    /\ \E a \in PolarityArgs, src \in Sources : set_burst_gate_polarity(a, src)

call_set_burst_ncycles ==
    /\ FgCallAllowed(MaxCalls)
    /\ \E a \in NcyclesArgs, src \in Sources : set_burst_ncycles(a, src)

call_set_burst_phase ==
    /\ FgCallAllowed(MaxCalls)
    /\ \E a \in PhaseArgs, src \in Sources : set_burst_phase(a, src)

FgenNext ==
    \/ call_set_wave_type
    \/ call_set_pulse_edge_time
    \/ call_set_pulse_hold
    \/ call_set_burst_mode
    \/ call_set_burst_gate_polarity
    \/ call_set_burst_ncycles
    \/ call_set_burst_phase

SpecFgen == FgenInit /\ [][FgenNext]_vars

call_set_frequency ==
    /\ FgCallAllowed(MaxFreqCalls)
    /\ \E f \in Frequencies, src \in Sources : set_frequency(f, src)

call_get_frequency ==
    /\ FgCallAllowed(MaxFreqCalls)
    /\ \E src \in Sources : get_frequency(src)

FreqNext ==
    \/ call_set_frequency
    \/ call_get_frequency

SpecFreq == FgenInit /\ [][FreqNext]_vars

call_set_waveform_config ==
    /\ FgCallAllowed(MaxWaveCalls)
    /\ \E src \in Sources, kwargs \in WaveKwargs :
          set_waveform_config(src, kwargs)

call_get_waveform_config ==
    /\ FgCallAllowed(MaxWaveCalls)
    /\ \E src \in Sources, reply \in ApplReplies :
          get_waveform_config(src, reply)

WaveNext ==
    \/ call_set_waveform_config
    \/ call_get_waveform_config

WaveInit == EnvIdle /\ WaveIdle /\ DataIdle /\ SessIdle

SpecWave == WaveInit /\ [][WaveNext]_vars

call_get_pulse_edge_time ==
    /\ FgCallAllowed(MaxCalls)
    /\ \E w \in WhichArgs, src \in Sources : get_pulse_edge_time(w, src)

EdgeNext ==
    \/ call_set_pulse_edge_time
    \/ call_get_pulse_edge_time

SpecEdge == FgenInit /\ [][EdgeNext]_vars


Init == EnvInit /\ FgIdle /\ DataIdle /\ SessIdle

Next ==
    \/ read_configuration
    \/ check_mask
    \/ connect_begin
    \/ resolve_entry
    \/ loop_end
    \/ construct
    \/ init_end
    \/ init_skip
    \/ init_call

Spec == Init /\ [][Next]_vars

\* EnvironmentSetup.__init__ on configurations of which a key may be
\* 'object_mask'.
ShadowInit == EnvInitOver(ShadowNames) /\ FgIdle /\ DataIdle /\ SessIdle

SpecShadow == ShadowInit /\ [][Next]_vars

\* ------------------------------------------------------------------------
\* Properties of EnvironmentSetup (checked under Spec)
\* ------------------------------------------------------------------------
Keys == Range(equipment_setup.keys)

Prefix(k) == {configuration[i] : i \in 1..k}

Tagged(n, tag) == <<n, tag>> \in outcome

Escalations == {"ResourceConnectionError", "UnsupportedResourceError"}

\* C1: a non-empty mask with a name the configuration lacks makes the
\* constructor raise ValueError whose payload is exactly the mask names that
\* are no key of the configuration, before any driver is looked up, any
\* constructor called or any name bound.
C1_MissingMaskRaises ==
    (/\ equipment_setup.type = "dict"
     /\ object_mask # {}
     /\ ~(object_mask \subseteq Keys)
     /\ pc \notin {"read_configuration", "check_mask"})
    => /\ pc = "raised"
       /\ error = Raise("ValueError", "check_mask", object_mask \ Keys)
       /\ opens = 0
       /\ resolved = <<>>
       /\ attrs = {}

\* Witness of C1: check_mask raised for a mask of which one name is
\* configured and another is not.
C1_Witness ==
    /\ pc = "raised"
    /\ error.where = "check_mask"
    /\ error.args # {}
    /\ error.args # object_mask

C3_Original ==
    error.type = "ResourceConnectionError" =>
       /\ attrs \subseteq Prefix(idx - 1)
       /\ resolved = SubSeq(configuration, 1, idx)

\* C3 amended: with a mask, a transport failure of an entry raises
\* ResourceConnectionError at that entry; the names bound at the raise are
\* those of all entries before it, and the failing entry's own name when the
\* failure came from an init step after its constructor returned; no later
\* entry is looked up, opened or initialized.
C3_MaskedTransportFailureAborts ==
    /\ \A n \in DeviceNames :
          (object_mask # {}
           /\ (Tagged(n, "open_failed") \/ Tagged(n, "init_transport_failed")))
          => /\ pc = "raised"
             /\ error.type = "ResourceConnectionError"
             /\ n = name
    /\ error.type = "ResourceConnectionError" =>
          /\ object_mask # {}
          /\ pc = "raised"
          /\ Tagged(name, "open_failed") \/ Tagged(name, "init_transport_failed")
          /\ attrs = Prefix(idx - 1)
                     \cup (IF Tagged(name, "init_transport_failed")
                           THEN {name} ELSE {})
          /\ resolved = SubSeq(configuration, 1, idx)
          /\ opens = idx

\* Witness of C3: three masked entries, the second one's address is
\* unreachable: the raise leaves the first bound and the third untouched.
C3_Witness ==
    /\ error.type = "ResourceConnectionError"
    /\ Len(configuration) = 3
    /\ idx = 2
    /\ Tagged(name, "open_failed")
    /\ attrs = {configuration[1]}

InitRan == step > 0

CurName ==
    IF pc \in {"init", "raised"} THEN configuration[idx]
    ELSE configuration[idx - 1]

InitFailed ==
    \E tag \in {"init_transport_failed", "init_attribute_error", "init_raised"} :
       Tagged(CurName, tag)

ValidSteps(k) ==
    {i \in 1..k : /\ i <= Len(info.init)
                  /\ info.init[i].method_name \in _get_callable_methods}

\* C5: the steps of an init sequence are invoked in declared order, each at
\* most once; a step whose call raises TypeError is reported and passed
\* over, every later step that names a callable method is still invoked, the
\* handle stays bound, nothing is raised and the loop of connect_to_devices
\* goes on.
C5_InitSequence ==
    InitRan =>
       /\ \A i, j \in 1..Len(calls) : i < j => calls[i] < calls[j]
       /\ Range(calls) = IF InitFailed THEN ValidSteps(step)
                         ELSE ValidSteps(step - 1)
       /\ step_reports = {i \in Range(calls) : info.init[i].method_kwargs = "bad"}
       /\ step_reports # {} => CurName \in attrs
       /\ (~InitFailed /\ pc # "init") =>
             /\ pc \in {"loop", "done"}
             /\ error = NoError
             /\ step = Len(info.init) + 1

\* Witness of C5: the first step raised TypeError, the second step was
\* invoked all the same, the handle is bound and the loop went on.
C5_Witness ==
    /\ pc = "loop"
    /\ InitRan
    /\ step_reports = {1}
    /\ calls = <<1, 2>>
    /\ CurName \in attrs
    /\ idx <= Len(configuration)

\* ------------------------------------------------------------------------
\* Properties of Keysight_33500B (checked under SpecFgen and SpecFreq)
\* ------------------------------------------------------------------------
EnumSetters == {"set_wave_type", "set_pulse_edge_time", "set_pulse_hold",
                "set_burst_mode", "set_burst_gate_polarity"}

\* The allowed values of each enum-typed argument.
EnumAllowed(op) ==
    CASE op = "set_wave_type" -> valid_wave_types
      [] op = "set_pulse_edge_time" ->
            {Which_both} \cup Which_rise \cup Which_fall
      [] op = "set_pulse_hold" -> Hold_options
      [] op = "set_burst_mode" -> Mode_options
      [] op = "set_burst_gate_polarity" -> Polarity_options

\* C6: a call of an enum-typed setter whose argument, upper-cased, is outside
\* the allowed set fails with ValueError and writes nothing to the
\* transport.
C6_EnumRejectedBeforeWrite ==
    (/\ fg_last.op \in EnumSetters
     /\ upper(fg_last.arg.s) \notin EnumAllowed(fg_last.op))
    => /\ fg_last.result = ValueError
       /\ fg_last.written = <<>>

SentinelNode(op) ==
    IF op = "set_burst_ncycles" THEN ":BURS:NCYC" ELSE ":BURS:PHASE"

SentinelOptions(op) ==
    IF op = "set_burst_ncycles" THEN Ncycles_options ELSE Phase_options

\* C7: set_burst_ncycles and set_burst_phase send every number (int or
\* float) verbatim in one write, send a recognized word upper-cased in one
\* write, and raise ValueError without a write for anything else.
C7_NumberOrSentinel ==
    fg_last.op \in {"set_burst_ncycles", "set_burst_phase"} =>
       LET a == fg_last.arg
           hdr == SourHdr(fg_last.source, SentinelNode(fg_last.op))
       IN  IF a.t \in {"int", "float"}
           THEN /\ fg_last.result = None
                /\ fg_last.written = <<Cmd(hdr, Str(a))>>
           ELSE IF a.t = "str" /\ upper(a.s) \in SentinelOptions(fg_last.op)
           THEN /\ fg_last.result = None
                /\ fg_last.written = <<Cmd(hdr, upper(a.s))>>
           ELSE /\ fg_last.result = ValueError
                /\ fg_last.written = <<>>

\* The number a Python value stands for, in tenths.
NumTenths(v) == IF v.t = "int" THEN 10 * v.n ELSE v.n

\* C8: against the mock instrument, get_frequency(source) returns, as a
\* float, the frequency last passed to set_frequency for that source,
\* whatever was set on the other sources in between.
C8_FrequencyRoundTrip ==
    (/\ fg_last.op = "get_frequency"
     /\ fg_expect[fg_last.source] # NoneV)
    => fg_last.result = ReturnFloat(NumTenths(fg_expect[fg_last.source]))

\* Witness of C8: get_frequency(2) returned the 2.5 set on source 2 after
\* another frequency was set on source 1.
C8_Witness ==
    /\ fg_last.op = "get_frequency"
    /\ fg_last.source = 2
    /\ fg_last.result = ReturnFloat(25)
    /\ \E e \in fg_store : e.hdr = "SOUR1:FREQ" /\ e.arg # FloatStr(25)

\* ------------------------------------------------------------------------
\* Properties of utility/data_management.py (SpecDump, SpecLog)
\* ------------------------------------------------------------------------
\* The lines the dump_array_data call added to its file.
DumpedLines ==
    LET content == Content(ArrayFilePath(da_args.file_path))
        kept == IF da_args.existing /\ ~da_args.init THEN 1 ELSE 0
    IN  SubSeq(content, kept + 1, Len(content))

\* The comma-joined row of index k: one cell per input sequence, the fill
\* value where the sequence is shorter than k.
ExpectedRow(k) ==
    [j \in 1..Len(da_args.data) |->
        CellArg(IF k <= Len(da_args.data[j]) THEN da_args.data[j][k]
                ELSE da_args.fill_value.v)]

\* C9: dump_array_data writes one comma-joined row per index position: as
\* many rows as the longest input sequence when a fill value is given, with
\* the fill value where a sequence is shorter, and as many rows as the
\* shortest input sequence when fill_value is None.
C9_RowPerIndex ==
    da_pc = "returned" =>
       /\ Len(DumpedLines) =
             IF da_args.fill_value.is_none THEN Min(Lengths(da_args.data))
             ELSE Max(Lengths(da_args.data))
       /\ \A k \in 1..Len(DumpedLines) : DumpedLines[k] = ExpectedRow(k)

\* Witness of C10: a second call in the same second, with the same base
\* directory and name, was refused; the first call's directory is there.
C10_Witness ==
    /\ tl_calls = 2
    /\ tl_last.result = "FileExistsError"
    /\ tl_last.target \in dirs
    /\ \E f \in json_files : f.path = tl_last.target \o "/log_" \o tl_last.stamp \o ".txt"

\* C10: a create_test_log call whose run directory already exists fails,
\* creates no directory and no metadata file and changes no file; a call
\* whose run directory does not exist yet (under an existing base
\* directory) succeeds, creates it and leaves what existed as it was.
C10_NoOverwrite ==
    [][tl_calls' # tl_calls =>
          /\ tl_last'.target \in dirs =>
                /\ tl_last'.result = "FileExistsError"
                /\ dirs' = dirs
                /\ json_files' = json_files
          /\ tl_last'.result = "ok" =>
                /\ tl_last'.target \notin dirs
                /\ tl_last'.target \in dirs'
                /\ dirs \subseteq dirs'
                /\ json_files \subseteq json_files'
          /\ (tl_last'.target \notin dirs /\ tl_last'.base_dir \in dirs) =>
                tl_last'.result = "ok"
      ]_vars

\* ------------------------------------------------------------------------
\* Properties of Scpi_Instrument.__eq__ / __ne__ (checked under SpecEq)
\* ------------------------------------------------------------------------
Compared == eq_last.op # "none"

Self == eq_objs[eq_last.i]

Obj == eq_objs[eq_last.j]

DriverInstances ==
    {eq_objs[k] : k \in {n \in Operands :
                            isinstance_Scpi_Instrument(eq_objs[n])}}

\* The relation is reflexive, symmetric and transitive over the driver
\* instances, and __ne__ answers the negation of __eq__.
EqIsEquivalence ==
    /\ \A a \in DriverInstances : __eq__(a, a)
    /\ \A a, b \in DriverInstances : __eq__(a, b) = __eq__(b, a)
    /\ \A a, b, c \in DriverInstances :
          (__eq__(a, b) /\ __eq__(b, c)) => __eq__(a, c)
    /\ \A a \in DriverInstances : \A k \in Operands :
          __ne__(a, eq_objs[k]) = ~__eq__(a, eq_objs[k])

\* C11 as stated: the result of a == b is TRUE exactly when b is a driver
\* instance of the same concrete class as a (the same class object) at the
\* same address; transport and timeout play no part; the relation is an
\* equivalence over driver instances; a != b is the negation.
C11_Original ==
    Compared =>
       /\ (eq_last.op = "__eq__") =>
             eq_last.result = (/\ isinstance_Scpi_Instrument(Obj)
                               /\ Self.class = Obj.class
                               /\ Self.address = Obj.address)
       /\ (eq_last.op = "__ne__") =>
             eq_last.result = ~(/\ isinstance_Scpi_Instrument(Obj)
                                /\ Self.class = Obj.class
                                /\ Self.address = Obj.address)
       /\ EqIsEquivalence

\* C11, amended: the result of a == b is TRUE exactly when b is a driver
\* instance whose class has the same __name__ as a's class (whatever module
\* defines it) and the same address; transport and timeout play no part;
\* comparison with an object that is no Scpi_Instrument is FALSE; the
\* relation is an equivalence over driver instances; a != b is the negation
\* of a == b.
C11_EqualByClassNameAndAddress ==
    Compared =>
       /\ (eq_last.op = "__eq__") =>
             eq_last.result = (/\ isinstance_Scpi_Instrument(Obj)
                               /\ Self.class.name = Obj.class.name
                               /\ Self.address = Obj.address)
       /\ (eq_last.op = "__ne__") =>
             eq_last.result = ~(/\ isinstance_Scpi_Instrument(Obj)
                                /\ Self.class.name = Obj.class.name
                                /\ Self.address = Obj.address)
       /\ EqIsEquivalence

\* Two distinct instances of one class at one address, each with its own
\* transport object and with different timeouts, were compared and are equal.
C11_Witness ==
    /\ eq_last.op = "__eq__"
    /\ eq_last.i # eq_last.j
    /\ Self.class = Obj.class
    /\ Self.address = Obj.address
    /\ Self.instrument # Obj.instrument
    /\ Self.timeout # Obj.timeout
    /\ eq_last.result = TRUE

\* ------------------------------------------------------------------------
\* Properties of log_data (checked under SpecLogData)
\* ------------------------------------------------------------------------
\* The calls made so far on the file at a path, in call order.
CallsOn(path) ==
    SelectSeq(ld_log, LAMBDA c : LogFilePathExt(c.file_path) = path)

\* The calls since, and including, the most recent one with init=True; all
\* of them when none had init=True.
SinceInit(cs) ==
    LET inits == {k \in 1..Len(cs) : cs[k].init}
    IN  SubSeq(cs, IF inits = {} THEN 1 ELSE Max(inits), Len(cs))

\* The row of a call: its elements in order, to be joined by commas.
RowOf(c) == [i \in 1..Len(c.data) |-> [tuple |-> FALSE, cells |-> <<c.data[i]>>]]

\* C12: after any sequence of log_data calls the file <file_path>.csv holds
\* exactly one comma-joined row per call made on it since (and including)
\* the most recent call with init=True, in call order, or one row per call
\* since the file was created when no call used init=True; the file exists
\* as soon as one call, with either value of init, was made on it.
C12_RowsSinceInit ==
    \A fp \in LogDataPaths :
       LET path == LogFilePathExt(fp)
           cs == SinceInit(CallsOn(path))
       IN  /\ Content(path) = [k \in 1..Len(cs) |-> RowOf(cs[k])]
           /\ (\E f \in files : f.path = path) <=> (CallsOn(path) # <<>>)

\* Three calls on one file: init=False created it, init=True discarded that
\* row, init=False added a second row after the new first one.
C12_Witness ==
    /\ Len(ld_log) = 3
    /\ \A k \in 1..3 : ld_log[k].file_path = ld_log[1].file_path
    /\ ~ld_log[1].init /\ ld_log[2].init /\ ~ld_log[3].init
    /\ ld_log[2].data # ld_log[3].data
    /\ Len(Content(LogFilePathExt(ld_log[1].file_path))) = 2

\* ------------------------------------------------------------------------
\* Properties of identify_devices (checked under SpecIdentify)
\* ------------------------------------------------------------------------
\* The enumerated positions whose device opens and answers the IDN query.
Answering == {k \in 1..Len(id_resources) : id_resources[k] = "answers"}

\* The (address, IDN response) pairs of the answering devices, in
\* enumeration order.
ExpectedDevices ==
    LET pick[k \in 0..Len(id_resources)] ==
           IF k = 0 THEN <<>>
           ELSE IF k \in Answering
                THEN Append(pick[k - 1],
                            <<ResourceAddress(k),
                              IdnResponse(ResourceAddress(k))>>)
                ELSE pick[k - 1]
    IN  pick[Len(id_resources)]

\* C13: identify_devices never raises on an address that cannot be opened or
\* does not answer; it returns exactly one (address, IDN response) pair per
\* answering address, in enumeration order, and every session it opened is
\* disposed before it returns.
C13_IdentifySkipsFailures ==
    /\ id_pc # "raised"
    /\ id_pc = "returned" =>
          /\ scpi_devices = ExpectedDevices
          /\ id_opened = id_closed

\* ------------------------------------------------------------------------
\* Properties of set_waveform_config / get_waveform_config (checked under
\* SpecWave)
\* ------------------------------------------------------------------------
\* The instrument's answer to 'SOUR<source><node>?' before the call.
Reading(source, node) == Answer(SourHdr(source, node) \o "?")

\* The text the write must carry for a numeric field: the caller's value as
\* str() prints it, or str(float()) of what the instrument answered.
NumberField(kwargs, key, source, node) ==
    IF kwargs[key].given THEN Str(kwargs[key].v)
    ELSE FloatStr(FloatTenths(Reading(source, node)))

WaveTypeField(kwargs, source) ==
    IF kwargs.wave_type.given THEN Str(kwargs.wave_type.v)
    ELSE lower(strip(Reading(source, ":FUNC")))

\* The tuple each APPL? reply stands for: lower-cased wave type, then
\* frequency, amplitude and offset in tenths.
ExpectedConfig(reply) ==
    IF reply = <<"\"", "S", "I", "N", " ", "1", "0", "0", "0", ".", "0", ",",
                 "0", ".", "1", ",", "0", ".", "0", "\"", "\n">>
    THEN <<<<"s", "i", "n">>, 10000, 1, 0>>
    ELSE IF reply = <<"\"", "S", "Q", "U", " ", "2", "5", ",", "2", ".", "5",
                      ",", "-", "1", ".", "5", "\"", "\n">>
    THEN <<<<"s", "q", "u">>, 250, 25, -15>>
    ELSE <<>>

\* C14: every set_waveform_config call makes exactly one write,
\* 'SOUR<n>:APPL:<wave_type> <frequency>, <amplitude>, <offset>', whose
\* fields are, in that order, the caller's value where one was given and the
\* value read from the instrument for the same source where it was left out;
\* every get_waveform_config call returns the APPL? reply as the tuple
\* (lower-cased wave type, frequency, amplitude, offset).
C14_FieldOrder ==
    [][fg_calls' # fg_calls =>
         /\ (fg_last'.op = "set_waveform_config") =>
               LET src == fg_last'.source
                   kw == fg_last'.arg
               IN  /\ fg_nwrites' = fg_nwrites + 1
                   /\ fg_last'.result = None
                   /\ fg_last'.written =
                         <<[hdr |-> "SOUR" \o ToString(src) \o ":APPL:"
                                    \o Join(WaveTypeField(kw, src)),
                            arg |-> NumberField(kw, "frequency", src, ":FREQ")
                                    \o <<",", " ">>
                                    \o NumberField(kw, "amplitude", src, ":VOLT")
                                    \o <<",", " ">>
                                    \o NumberField(kw, "offset", src,
                                                   ":VOLT:OFFS")]>>
         /\ (fg_last'.op = "get_waveform_config") =>
               /\ fg_nwrites' = fg_nwrites
               /\ fg_last'.result.t = "tuple"
               /\ fg_last'.result.items = ExpectedConfig(fg_last'.aux.s)
      ]_vars

\* A set_waveform_config call that gave the frequency and the offset and
\* left wave type and amplitude to be read from source 2 made its write.
C14_Witness ==
    /\ fg_last.op = "set_waveform_config"
    /\ fg_last.source = 2
    /\ fg_last.arg.frequency.given /\ fg_last.arg.offset.given
    /\ ~fg_last.arg.wave_type.given /\ ~fg_last.arg.amplitude.given
    /\ Len(fg_last.written) = 1
    /\ fg_last.written[1].hdr = "SOUR2:APPL:squ"
    /\ fg_last.written[1].arg = <<"5", "0", ",", " ", "2", ".", "5", ",", " ",
                                  "-", "0", ".", "5">>

\* ------------------------------------------------------------------------
\* Properties of Scpi_Instrument.__del__ (checked under SpecSession)
\* ------------------------------------------------------------------------
\* C15 as stated: over any sequence of disposals of an instance the
\* transport's close is invoked at most once, no disposal raises, and an
\* instance whose construction failed before the session was opened never
\* has close invoked.
C15_Original ==
    \A k \in InstanceIds :
       /\ insts[k].closes <= 1
       /\ insts[k].raised = "none"
       /\ ~insts[k].has_instrument => insts[k].closes = 0

\* C15, amended: the transport session is released at most once, by the
\* first disposal, and no disposal raises; but close is invoked by every
\* disposal of an instance whose session was opened (the second and later
\* calls reach a session that is closed already), and by none when
\* construction failed before the session was opened.
C15_ReleasedOnceClosedPerDisposal ==
    \A k \in InstanceIds :
       /\ insts[k].released <= 1
       /\ insts[k].raised = "none"
       /\ insts[k].closes =
             IF insts[k].has_instrument THEN insts[k].disposals ELSE 0
       /\ (insts[k].has_instrument /\ insts[k].disposals >= 1) =>
             (insts[k].transport = "closed" /\ insts[k].released = 1)

\* One instance was disposed twice after a successful construction, another
\* was disposed after its open_resource failed.
C15_Witness ==
    \E j, k \in InstanceIds :
       /\ insts[j].state = "constructed"
       /\ insts[j].disposals = 2
       /\ insts[j].closes = 2
       /\ insts[j].released = 1
       /\ insts[k].state = "failed"
       /\ ~insts[k].has_instrument
       /\ insts[k].disposals >= 1
       /\ insts[k].closes = 0

\* ------------------------------------------------------------------------
\* Properties of create_test_log's metadata file (checked under SpecLog)
\* ------------------------------------------------------------------------
\* The metadata files inside the run directory of the last call.
MetadataFiles == {f \in json_files : f.path = tl_last.target \o "/log_"
                                                \o tl_last.stamp \o ".json"}

\* C16: a create_test_log call that succeeded wrote log_<TIMESTAMP>.json
\* inside the run directory exactly when the caller passed at least one
\* keyword argument; the file holds every pair the caller passed and one
\* 'run_time' entry more, and TIMESTAMP is the one in the directory's name.
C16_MetadataFileWhenKwargs ==
    (tl_last.op = "create_test_log" /\ tl_last.result = "ok") =>
       /\ (MetadataFiles # {}) <=> (tl_last.test_info # {})
       /\ \A f \in MetadataFiles :
             /\ tl_last.test_info \subseteq f.data
             /\ \E kv \in f.data : kv[1] = "run_time"
             /\ Cardinality(f.data) = Cardinality(tl_last.test_info) + 1
       /\ tl_last.target = tl_last.base_dir \o "/" \o TestName(tl_last.test_info)
                            \o "_" \o tl_last.stamp

\* ------------------------------------------------------------------------
\* Properties of the mask in connect_to_devices (checked under Spec)
\* ------------------------------------------------------------------------
\* The configured names a mask keeps, in insertion order.
Masked == SelectSeq(equipment_setup.keys, LAMBDA n : n \in object_mask)

IsPrefix(s, t) == Len(s) <= Len(t) /\ s = SubSeq(t, 1, Len(s))

\* C17: with a non-empty mask whose names are all configured, only masked
\* entries are looked up, opened and bound, in insertion order, and no
\* unmasked name becomes an attribute; with no mask the entries are attempted
\* in insertion order, each once, and all of them when the constructor
\* returns.
C17_MaskSelectsEntries ==
    equipment_setup.type = "dict" =>
       /\ (object_mask # {} /\ object_mask \subseteq Keys) =>
             /\ Range(resolved) \subseteq object_mask
             /\ attrs \subseteq object_mask
             /\ IsPrefix(resolved, Masked)
             /\ opens <= Len(resolved)
             /\ pc = "done" => resolved = Masked
       /\ object_mask = {} =>
             /\ IsPrefix(resolved, equipment_setup.keys)
             /\ opens <= Len(resolved)
             /\ pc = "done" => resolved = equipment_setup.keys
       /\ Distinct(resolved)

\* Three entries are configured and the mask names the first and the third:
\* the constructor returned with those two bound and the second never
\* looked up.
C17_Witness ==
    /\ pc = "done"
    /\ Len(equipment_setup.keys) = 3
    /\ object_mask = {equipment_setup.keys[1], equipment_setup.keys[3]}
    /\ resolved = <<equipment_setup.keys[1], equipment_setup.keys[3]>>
    /\ attrs = object_mask
    /\ opens = 2

\* ------------------------------------------------------------------------
\* Properties of binding and initialization with no mask (checked under Spec)
\* ------------------------------------------------------------------------
\* The entry the loop looked up last; calls, step and info belong to it.
LastName == resolved[Len(resolved)]

ConstructionFailed(n) ==
    \/ Tagged(n, "resolution_failed")
    \/ Tagged(n, "open_failed")
    \/ Tagged(n, "construct_raised")

FailureTags ==
    {"resolution_failed", "open_failed", "init_transport_failed",
     "init_attribute_error"}

\* C20: with an empty mask, or none, check_mask raises nothing, no
\* configured entry is dropped and no transport or resolution failure of any
\* entry is raised; whether failures are raised is settled by the supplied
\* mask alone, for every entry alike: with a mask every such failure is
\* raised, with none not one is.
C20_EmptyMaskIsNoMask ==
    equipment_setup.type = "dict" =>
       /\ object_mask = {} =>
             /\ error.where # "check_mask"
             /\ pc \notin {"read_configuration", "check_mask", "connect"} =>
                   configuration = equipment_setup.keys
             /\ error.type \notin Escalations
       /\ object_mask # {} =>
             \A n \in Range(configuration) :
                (\E tag \in FailureTags : Tagged(n, tag)) =>
                   (pc = "raised" /\ error.type \in Escalations)

\* ------------------------------------------------------------------------
\* Properties of set_pulse_edge_time / get_pulse_edge_time (checked under
\* SpecEdge)
\* ------------------------------------------------------------------------
\* The header set_pulse_edge_time writes for a valid 'which', with a '?'.
SetterQuery(which, source) ==
    SourHdr(source, PulseEdgeNode(upper(which.s))) \o "?"

ValidWhich(which) ==
    \/ upper(which.s) = Which_both
    \/ upper(which.s) \in Which_rise
    \/ upper(which.s) \in Which_fall

\* C19: for every accepted 'which', get_pulse_edge_time queries the header
\* set_pulse_edge_time writes for that 'which', followed by '?'; so when the
\* instrument holds a value under that header, written by the setter, the
\* getter returns it: one number for a rising or falling edge, a pair of
\* that number for both.
C19_GetterReadsSetterNode ==
    (fg_last.op = "get_pulse_edge_time" /\ ValidWhich(fg_last.arg)) =>
       /\ \A i \in 1..Len(fg_last.aux) :
             fg_last.aux[i] = SetterQuery(fg_last.arg, fg_last.source)
       /\ Answered(SetterQuery(fg_last.arg, fg_last.source)) =>
             LET t == FloatTenths(Answer(SetterQuery(fg_last.arg,
                                                     fg_last.source)))
             IN  fg_last.result =
                    IF upper(fg_last.arg.s) = Which_both
                    THEN [t |-> "tuple", n |-> 0, items |-> <<t, t>>]
                    ELSE [t |-> "float", n |-> t]

====
